---- MODULE Spec2Model ----
(***************************************************************************)
(* Interview_AI backend: the interview session state machine, the message  *)
(* log and the report synthesis of backend/main.py and                     *)
(* backend/hr_interview_service.py.                                        *)
(*                                                                         *)
(* One action is one HTTP request handled from its first statement to its  *)
(* response.  The relational store is the tables users, resumes,           *)
(* interview_sessions and interview_messages.  A row's primary key is its  *)
(* position in the table's sequence.  Messages of one session are kept in  *)
(* timestamp order, a message's timestamp is its position in the log.      *)
(***************************************************************************)
EXTENDS Integers, Sequences, FiniteSets, TLC

----------------------------------------------------------------------------
(* Bounds of the model *)

\* rows of the tables resumes, interview_sessions and interview_messages
MaxResumes == 1
MaxSessions == 1
MaxMsgs == 2
\* readings of the clock that are stored as an end_time
MaxTime == 2
\* length of the message log a report is synthesized from (InitReport)
MaxLog == 6
\* length of the previous_questions list of a question request (NextQuestion)
MaxPrev == 9
\* length of a previous_questions list made of pool templates only
MaxPool == 5
\* questions asked so far in a session whose client sends all of them
MaxAsked == 9

----------------------------------------------------------------------------
(* Values *)

Null == 0 - 1

UserIds == {"u1"}

ResumeTexts == {"cv_python", "cv_plain"}

Answers == {"a1"}

\* what one call of the AI gateway can do: answer, find no API key in the
\* environment, raise, or answer with text that json.loads rejects
GatewayOutcomes == {"ok", "unconfigured", "throws", "unparsable"}

RECURSIVE SeqSum(_)
SeqSum(s) == IF s = <<>> THEN 0 ELSE Head(s) + SeqSum(Tail(s))

SeqToSet(s) == { s[i] : i \in DOMAIN s }

\* list[-n:]
LastNButOne(s, n) ==
  IF Len(s) <= n - 1 THEN s ELSE SubSeq(s, Len(s) - n + 2, Len(s))

LastN(s, n) == IF Len(s) <= n THEN s ELSE SubSeq(s, Len(s) - n + 1, Len(s))

\* list[idx] with a 0-based idx; "IndexError" when idx is out of range
ListGet(s, idx) == IF idx + 1 \in DOMAIN s THEN s[idx + 1] ELSE "IndexError"

----------------------------------------------------------------------------
(* Text of questions.  A text is a token; lower() and the substring test   *)
(* `a in b` of Python are given by their graph on the tokens.              *)

\* the five templates of generate_question, the first one names primary_tech
PrimaryTech(raw_text) == IF raw_text = "cv_python" THEN "python" ELSE "technical"

FallbackQuestions(raw_text) ==
  << IF PrimaryTech(raw_text) = "python" THEN "T1py" ELSE "T1gen",
     "T2", "T3", "T4", "T5" >>

\* str.lower(): the templates are mixed case, "t2" is the lower case of "T2"
Lower(t) ==
  CASE t = "T1py" -> "t1py"
    [] t = "T1gen" -> "t1gen"
    [] t = "T2" -> "t2"
    [] t = "T3" -> "t3"
    [] t = "T4" -> "t4"
    [] t = "T5" -> "t5"
    [] OTHER -> t

\* a in b, on lower-case text: "" is in every text, "version control" is a
\* proper substring of the third template
StrIn(a, b) == a = "" \/ a = b \/ (a = "version control" /\ b = "t3")

BasicQuestion == "B1"

\* the eight questions of get_fallback_hr_questions
FallbackHRQuestions == << "H1", "H2", "H3", "H4", "H5", "H6", "H7", "H8" >>

\* the five questions of get_common_hr_questions
CommonHRQuestions == << "K1", "K2", "K3", "K4", "K5" >>

\* what the gateway can answer: one technical question, a batch of HR questions
AIQuestions == {"G1"}
AIHRBatches == { << "G1", "G2" >> }

----------------------------------------------------------------------------
(* The store and the last response *)

\* users:    table users, one row per insert
\* resumes:  table resumes
\* sessions: table interview_sessions
\* messages: table interview_messages, messages[s] is the log of session s
\* now:      the clock, read when end_time is written (and, by concurrent
\*           requests, when a message row is built)
\* last:     the request handled last and its response
\* inflight: the requests that have added a message to their database
\*           session and have not committed it yet (concurrent requests)
VARIABLES users, resumes, sessions, messages, now, last, inflight

vars == << users, resumes, sessions, messages, now, last, inflight >>

\* shape: the keys of the dictionary; question_feedback: its
\* question_by_question_feedback, of each entry the score and areas_to_improve
NullReport ==
  [ shape |-> "null", src |-> "null", overall_score |-> Null,
    category_scores |-> << >>, questions_asked |-> Null,
    question_feedback |-> << >> ]

\* op, sid, previous_questions, nprev: the request (nprev is
\* len(previous_questions));
\* user_id: the user of an ATS report request; file_extension: the extension
\* of an uploaded file; extracted: what extract_text_from_file returned in
\* this request, "none" when it was not called;
\* ai: what the AI gateway did in this request, "none" when it was not called;
\* code: the HTTP status; question, message_id, report, ats_report: fields of
\* the body, report is NullReport and ats_report "none" when the body has none;
\* qa_pairs: the question and answer pairs a report handler built from the
\* log (the transcript of its prompt, repeated in the fallback feedback);
\* ai_calls: how many times the request invoked generate_content
NoResponse ==
  [ op |-> "none", sid |-> 0, nprev |-> 0, user_id |-> "", file_extension |-> "",
    extracted |-> "none", ai |-> "none", code |-> 0,
    question |-> "", message_id |-> 0, report |-> NullReport,
    ats_report |-> "none", qa_pairs |-> << >>, ai_calls |-> 0,
    previous_questions |-> << >> ]

GatewayCallsWithRetry(ai) ==
  CASE ai \in {"none", "unconfigured"} -> 0
    [] ai = "ok" -> 1
    [] OTHER -> 2

\* the generate_content calls of a request whose gateway did `ai`: none when
\* the handler did not reach the gateway or found no API key, else the one
\* call inside the handler's try block
GatewayCalls(ai) ==
  IF ai \in {"none", "unconfigured"} THEN 0 ELSE 1

Response(op, sid, code) ==
  [ NoResponse EXCEPT !.op = op, !.sid = sid, !.code = code ]

----------------------------------------------------------------------------
(* Question selection *)

\* generate_question, step 3: the template chosen when the gateway gave nothing
AvailableQuestions(raw_text, previous_questions) ==
  LET previous_question_texts ==
        [ i \in DOMAIN previous_questions |-> Lower(previous_questions[i]) ]
      recent == LastN(previous_question_texts, 3)
      NotAsked(q) == ~ \E i \in DOMAIN recent : StrIn(recent[i], Lower(q))
      available == SelectSeq(FallbackQuestions(raw_text), NotAsked)
  IN IF available = << >> THEN FallbackQuestions(raw_text) ELSE available

QuestionIndexOfPool(previous_questions, available) ==
  Len(previous_questions) % 5

QuestionIndex(previous_questions, available) ==
  Len(previous_questions) % Len(available)

FallbackQuestion(raw_text, previous_questions) ==
  LET available == AvailableQuestions(raw_text, previous_questions)
  IN ListGet(available, QuestionIndex(previous_questions, available))

AvailableHRQuestionsRecent(hr_questions, previous_questions) ==
  LET NotAsked(q) == q \notin SeqToSet(LastN(previous_questions, 3))
      available == SelectSeq(hr_questions, NotAsked)
  IN IF available = << >> THEN CommonHRQuestions ELSE available

\* generate_next_hr_question: filter, common questions, index
AvailableHRQuestions(hr_questions, previous_questions) ==
  LET NotAsked(q) == q \notin SeqToSet(previous_questions)
      available == SelectSeq(hr_questions, NotAsked)
  IN IF available = << >> THEN CommonHRQuestions ELSE available

HRQuestionIndex(previous_questions, available) ==
  Len(previous_questions) % Len(available)

NextHRQuestion(hr_questions, previous_questions) ==
  LET available == AvailableHRQuestions(hr_questions, previous_questions)
  IN ListGet(available, HRQuestionIndex(previous_questions, available))

----------------------------------------------------------------------------
(* Report synthesis *)

Message(role, content, timestamp) ==
  [ role |-> role, content |-> content, timestamp |-> timestamp ]

QuestionsAsked(log) == SelectSeq(log, LAMBDA m : m.role = "ai")

AnswersGiven(log) == SelectSeq(log, LAMBDA m : m.role = "user")

AnswerIndexLatest(answers_given, question_msg) ==
  LET later == { j \in DOMAIN answers_given :
                   answers_given[j].timestamp > question_msg.timestamp }
  IN IF later = {} THEN 0 ELSE CHOOSE j \in later : \A k \in later : j >= k

\* next((a for a in answers_given if a.timestamp > question_msg.timestamp), None)
\* as an index into answers_given, 0 for None
AnswerIndex(answers_given, question_msg) ==
  LET later == { j \in DOMAIN answers_given :
                   answers_given[j].timestamp > question_msg.timestamp }
  IN IF later = {} THEN 0 ELSE CHOOSE j \in later : \A k \in later : j <= k

\* the loop over questions_asked of generate_hr_interview_report
RECURSIVE PairQuestions(_, _)
PairQuestions(questions_asked, answers_given) ==
  IF questions_asked = << >> THEN << >>
  ELSE LET question_msg == Head(questions_asked)
           j == AnswerIndex(answers_given, question_msg)
           rest == PairQuestions(Tail(questions_asked), answers_given)
       IN IF j = 0 THEN rest
          ELSE << [ question |-> question_msg.content,
                    answer |-> answers_given[j].content,
                    answer_ts |-> answers_given[j].timestamp ] >> \o rest

HRQaPairs(log) == PairQuestions(QuestionsAsked(log), AnswersGiven(log))

Min(a, b) == IF a <= b THEN a ELSE b

BasicScoreUncapped(answers_given) == 60 + (Len(answers_given) * 5)

\* basic_score = min(85, 60 + (len(answers_given) * 5))
BasicScore(answers_given) == Min(85, 60 + (Len(answers_given) * 5))

CategoryScores(basic_score) ==
  << basic_score - 5, basic_score, basic_score - 10, basic_score + 5, basic_score >>

\* areas_to_improve of the eight feedback_templates
FeedbackTemplates ==
  << "critique1", "critique2", "critique3", "critique4",
     "critique5", "critique6", "critique7", "critique8" >>

\* the phrase the report prompt asks for when a score is 85 or more
NoImprovementNeeded == "no_improvement_needed"

\* question_feedback of the fallback path, one entry for each pair
QuestionFeedback(qa_pairs, basic_score) ==
  [ n \in DOMAIN qa_pairs |->
      [ score |-> basic_score - (((n - 1) % 3) * 5),
        areas_to_improve |-> FeedbackTemplates[((n - 1) % Len(FeedbackTemplates)) + 1] ] ]

\* the dictionary `report` of the fallback path
FallbackHRReport(log) ==
  [ shape |-> "hr_report", src |-> "fallback",
    overall_score |-> BasicScore(AnswersGiven(log)),
    category_scores |-> CategoryScores(BasicScore(AnswersGiven(log))),
    questions_asked |-> Len(HRQaPairs(log)),
    question_feedback |-> QuestionFeedback(HRQaPairs(log), BasicScore(AnswersGiven(log))) ]

\* what the gateway can answer to a report prompt, after json.loads; its
\* feedback entry is written as the prompt asks
AIReportData ==
  { [ shape |-> "report_data", src |-> "ai", overall_score |-> sc,
      category_scores |-> << sc, sc, sc, sc, sc >>, questions_asked |-> Null,
      question_feedback |->
        << [ score |-> sc,
             areas_to_improve |-> IF sc >= 85 THEN NoImprovementNeeded
                                  ELSE "ai_critique" ] >> ] :
    sc \in {72, 90} }

\* the dictionary returned under "report" on the AI path of the HR report
AIHRReport(report_data, log) ==
  [ report_data EXCEPT !.shape = "hr_report",
                       !.questions_asked = Len(HRQaPairs(log)) ]

\* generate_interview_report, step 3: messages taken two by two
TechQaPairs(log) ==
  LET n == IF Len(log) < 2 THEN 0 ELSE Len(log) \div 2
      Pair(k) ==
        LET first == log[2 * k - 1]
            second == log[2 * k]
            question_msg == IF first.role = "assistant" THEN first ELSE second
            answer_msg == IF second.role = "user" THEN second ELSE first
        IN [ question |-> question_msg.content, answer |-> answer_msg.content,
             answer_ts |-> answer_msg.timestamp ]
  IN [ k \in 1..n |-> Pair(k) ]

----------------------------------------------------------------------------
(* The store *)

SessionIds == 1..MaxSessions

ResumeIds == 1..MaxResumes

NewSessionStatusPending == "pending"

\* status given to a new row by create_interview_session and
\* create_hr_interview_session (and the column default)
NewSessionStatus == "active"

NewSession(user_id) ==
  [ user_id |-> user_id, status |-> NewSessionStatus, end_time |-> Null, final_score |-> Null,
    final_report |-> NullReport ]

\* the previous_questions lists a client sends
PreviousQuestions == { << >> }

\* rows of interview_messages
TotalMessages == SeqSum([ s \in DOMAIN messages |-> Len(messages[s]) ])

\* db.add(InterviewMessage(...)); db.commit()
AppendMessage(s, role, content) ==
  messages' = [ messages EXCEPT ![s] =
                  Append(@, Message(role, content, Len(@) + 1)) ]

\* a row of users: the primary key; email, first_name, last_name and
\* created_at are written by the insert only and read by no handler
UserRow(user_id) == [ user_id |-> user_id ]

UserExists(u) == \E i \in DOMAIN users : users[i].user_id = u

EnsureUserExistsAlwaysInserts(u) == Append(users, UserRow(u))

\* ensure_user_exists: the table users after the call
EnsureUserExists(u) ==
  IF UserExists(u) THEN users ELSE Append(users, UserRow(u))

Init ==
  /\ users = << >>
  /\ resumes = << >>
  /\ sessions = << >>
  /\ messages = << >>
  /\ now = 0
  /\ last = NoResponse
  /\ inflight = {}

----------------------------------------------------------------------------
(* Resume upload and session creation *)

\* `if not job_role`: no job description came with the upload (None or "")
NoJobRoleNever(job_role) == FALSE

NoJobRole(job_role) == job_role \in {"None", ""}

\* the report stored when the ATS scan is skipped: match_score None, no
\* missing_keywords, the one suggestion "No job description was provided. ..."
SkippedATSReport == "ats_skipped"

\* get_ats_report: the report of the gateway, or the report of the except
\* clause the failure ends in
GetATSReport(ai) ==
  CASE ai = "ok" -> "ats_ai"
    [] ai = "unconfigured" -> "ats_service_unavailable"
    [] ai = "throws" -> "ats_processing_failed"
    [] OTHER -> "ats_analysis_error"

\* file_extension.lower()
LowerExtension(file_extension) ==
  IF file_extension = ".PDF" THEN ".pdf" ELSE file_extension

\* upload_resume, step 1: file_extension.lower() in allowed_extensions
AllowedExtension(file_extension) ==
  LowerExtension(file_extension) \in {".pdf", ".docx"}

\* extract_text_from_file: content is the stripped text of the pages or
\* paragraphs, "unreadable" when the reader raises; the ValueError of an
\* unsupported extension and the error of the reader end in the except
\* clause, which returns a text that starts with "Error:"
ExtractTextFromFile(file_extension, content) ==
  IF LowerExtension(file_extension) \notin {".pdf", ".docx"} THEN "Error:"
  ELSE IF content = "unreadable" THEN "Error:"
  ELSE content

ExtractionFailedOnPrefix(extracted) == extracted = "Error:"

\* extracted_text.startswith("Error:") or not extracted_text
ExtractionFailed(extracted) == extracted = "Error:" \/ extracted = ""

\* POST /upload-resume/ ; ai is what the gateway does if get_ats_report runs
UploadResume(u, file_extension, content, job_role, ai) ==
  LET extracted == ExtractTextFromFile(file_extension, content)
      Answer(code) == [ Response("upload_resume", 0, code) EXCEPT
                          !.file_extension = file_extension ]
  IN
  /\ Len(resumes) < MaxResumes
  /\ IF ~ AllowedExtension(file_extension)
     THEN /\ last' = Answer(400)
          /\ UNCHANGED << users, resumes >>
     ELSE /\ users' = EnsureUserExists(u)
          /\ IF ExtractionFailed(extracted)
             THEN /\ last' = [ Answer(500) EXCEPT !.extracted = extracted ]
                  /\ UNCHANGED resumes
             ELSE /\ resumes' = Append(resumes,
                        [ user_id |-> u, raw_text |-> extracted,
                          job_role |-> job_role,
                          ats_report |-> IF NoJobRole(job_role)
                                         THEN SkippedATSReport
                                         ELSE GetATSReport(ai) ])
                  /\ last' = [ Answer(200) EXCEPT
                                 !.extracted = extracted,
                                 !.ai = IF NoJobRole(job_role) THEN "none" ELSE ai,
                                 !.ai_calls = IF NoJobRole(job_role) THEN 0
                                              ELSE GatewayCalls(ai) ]
  /\ UNCHANGED << sessions, messages, now, inflight >>

\* the most recently uploaded resume of a user, 0 when there is none
LatestResume(u) ==
  LET own == { r \in DOMAIN resumes : resumes[r].user_id = u }
  IN IF own = {} THEN 0 ELSE CHOOSE r \in own : \A q \in own : q <= r

\* POST /create-interview-session/
CreateInterviewSession(u) ==
  /\ Len(sessions) < MaxSessions
  /\ users' = EnsureUserExists(u)
  /\ IF LatestResume(u) = 0
     THEN /\ last' = Response("create_interview_session", 0, 400)
          /\ UNCHANGED << sessions, messages >>
     ELSE /\ sessions' = Append(sessions, NewSession(u))
          /\ messages' = Append(messages, << >>)
          /\ last' = Response("create_interview_session", Len(sessions) + 1, 200)
  /\ UNCHANGED << resumes, now, inflight >>

\* POST /create-hr-interview/
CreateHRInterview(u, r) ==
  /\ Len(sessions) < MaxSessions
  /\ IF r \notin DOMAIN resumes \/ ~ UserExists(u)
     THEN /\ last' = Response("create_hr_interview", 0, 500)
          /\ UNCHANGED << sessions, messages >>
     ELSE /\ sessions' = Append(sessions, NewSession(u))
          /\ messages' = Append(messages, << >>)
          /\ last' = Response("create_hr_interview", Len(sessions) + 1, 200)
  /\ UNCHANGED << users, resumes, now, inflight >>

----------------------------------------------------------------------------
(* Questions and answers *)

\* the response of generate_question's outermost except clause
BasicQuestionResponse(s, nprev, ai) ==
  [ Response("generate_question", s, 200) EXCEPT
      !.nprev = nprev, !.ai = ai, !.ai_calls = GatewayCalls(ai),
      !.question = BasicQuestion ]

\* POST /generate-question/
GenerateQuestion(s, r, previous_questions, ai, gq) ==
  LET nprev == Len(previous_questions)
      question ==
        IF ai = "ok" THEN gq
        ELSE FallbackQuestion(resumes[r].raw_text, previous_questions)
  IN
  /\ IF r \notin DOMAIN resumes \/ s \notin DOMAIN sessions
     THEN /\ last' = [ BasicQuestionResponse(s, nprev, "none") EXCEPT
                         !.previous_questions = previous_questions ]
          /\ UNCHANGED messages
     ELSE /\ TotalMessages < MaxMsgs
          /\ IF question = "IndexError"
             THEN /\ last' = [ BasicQuestionResponse(s, nprev, ai) EXCEPT
                                 !.previous_questions = previous_questions ]
                  /\ UNCHANGED messages
             ELSE /\ AppendMessage(s, "ai", question)
                  /\ last' = [ Response("generate_question", s, 200) EXCEPT
                                 !.nprev = nprev, !.ai = ai,
                                 !.previous_questions = previous_questions,
                                 !.ai_calls = GatewayCalls(ai), !.question = question,
                                 !.message_id = Len(messages[s]) + 1 ]
  /\ UNCHANGED << users, resumes, sessions, now, inflight >>

\* get_hr_questions_based_on_resume: the batch of the gateway or the fallback set
HRQuestionsBasedOnResume(ai, batch) ==
  IF ai = "ok" THEN batch ELSE FallbackHRQuestions

\* POST /generate-hr-question/
GenerateHRQuestion(s, r, previous_questions, ai, batch) ==
  LET nprev == Len(previous_questions)
      question ==
        NextHRQuestion(HRQuestionsBasedOnResume(ai, batch), previous_questions)
      Failed(gw) == [ Response("generate_hr_question", s, 500) EXCEPT
                        !.nprev = nprev, !.ai = gw,
                        !.previous_questions = previous_questions,
                        !.ai_calls = GatewayCalls(gw) ]
  IN
  /\ IF r \notin DOMAIN resumes \/ s \notin DOMAIN sessions
     THEN /\ last' = Failed("none")
          /\ UNCHANGED messages
     ELSE /\ TotalMessages < MaxMsgs
          /\ IF question = "IndexError"
             THEN /\ last' = Failed(ai)
                  /\ UNCHANGED messages
             ELSE /\ AppendMessage(s, "ai", question)
                  /\ last' = [ Response("generate_hr_question", s, 200) EXCEPT
                                 !.nprev = nprev, !.ai = ai,
                                 !.previous_questions = previous_questions,
                                 !.ai_calls = GatewayCalls(ai), !.question = question,
                                 !.message_id = Len(messages[s]) + 1 ]
  /\ UNCHANGED << users, resumes, sessions, now, inflight >>

\* POST /submit-answer/
SubmitAnswer(s, answer, commit) ==
  /\ IF s \notin DOMAIN sessions \/ ~ commit
     THEN /\ last' = Response("submit_answer", s, 500)
          /\ UNCHANGED messages
     ELSE /\ TotalMessages < MaxMsgs
          /\ AppendMessage(s, "user", answer)
          /\ last' = [ Response("submit_answer", s, 200) EXCEPT
                         !.message_id = Len(messages[s]) + 1 ]
  /\ UNCHANGED << users, resumes, sessions, now, inflight >>

\* POST /submit-hr-answer/
SubmitHRAnswer(s, answer, commit) ==
  /\ IF s \notin DOMAIN sessions \/ ~ commit
     THEN /\ last' = Response("submit_hr_answer", s, 200)
          /\ UNCHANGED messages
     ELSE /\ TotalMessages < MaxMsgs
          /\ AppendMessage(s, "user", answer)
          /\ last' = [ Response("submit_hr_answer", s, 200) EXCEPT
                         !.message_id = Len(messages[s]) + 1 ]
  /\ UNCHANGED << users, resumes, sessions, now, inflight >>

----------------------------------------------------------------------------
(* Completion and report *)

\* session.status, end_time, final_score, final_report assigned and committed
CompletedSession(session, end_time, final_score, final_report) ==
  [ session EXCEPT !.status = "completed", !.end_time = end_time,
                   !.final_score = final_score, !.final_report = final_report ]

NoAnswersUnchecked(answers_given) == FALSE

\* the guard of generate_hr_interview_report on answers_given
NoAnswers(answers_given) == Len(answers_given) = 0

\* POST /complete-hr-interview/{session_id}
CompleteHRInterview(s, ai, report_data) ==
  LET log == messages[s]
      answers_given == AnswersGiven(log)
      Failed == Response("complete_hr_interview", s, 500)
      Done(report) ==
        [ Response("complete_hr_interview", s, 200) EXCEPT
            !.ai = ai, !.ai_calls = GatewayCalls(ai), !.report = report,
            !.qa_pairs = HRQaPairs(log) ]
  IN
  /\ IF s \notin DOMAIN sessions
     THEN /\ last' = Failed
          /\ UNCHANGED << sessions, now >>
     ELSE IF NoAnswers(answers_given)
     THEN /\ last' = Failed
          /\ UNCHANGED << sessions, now >>
     ELSE /\ now < MaxTime
          /\ now' = now + 1
          /\ IF ai = "ok"
             THEN /\ sessions' = [ sessions EXCEPT ![s] =
                       CompletedSession(@, now + 1, report_data.overall_score,
                                        report_data) ]
                  /\ last' = Done(AIHRReport(report_data, log))
             ELSE /\ sessions' = [ sessions EXCEPT ![s] =
                       CompletedSession(@, now + 1, BasicScore(answers_given),
                                        FallbackHRReport(log)) ]
                  /\ last' = Done(FallbackHRReport(log))
  /\ UNCHANGED << users, resumes, messages, inflight >>

\* generate_interview_report, step 1: end_time is written when it is not set
StampEndTime(session, time) ==
  IF session.end_time = Null THEN [ session EXCEPT !.end_time = time ] ELSE session

\* generate_interview_report, step 7: the update that completes the session
SaveReport(session, report_data) ==
  [ session EXCEPT !.final_report = report_data,
                   !.final_score = report_data.overall_score,
                   !.status = "completed" ]

\* GET /generate-report/{session_id}
GenerateInterviewReport(s, ai, report_data) ==
  LET log == messages[s]
      qa_pairs == TechQaPairs(log)
      stamped == StampEndTime(sessions[s], now + 1)
      \* the handler has no guard on the API key: without a key
      \* generate_content is called all the same, and raises
      calls == GatewayCalls(IF ai = "unconfigured" THEN "throws" ELSE ai)
      Failed == Response("generate_interview_report", s, 500)
  IN
  /\ IF s \notin DOMAIN sessions
     THEN /\ last' = Failed
          /\ UNCHANGED << sessions, now >>
     ELSE /\ sessions[s].end_time = Null => now < MaxTime
          /\ now' = IF sessions[s].end_time = Null THEN now + 1 ELSE now
          /\ IF Len(log) = 0
             THEN /\ last' = Failed
                  /\ sessions' = [ sessions EXCEPT ![s] = stamped ]
             ELSE IF ai # "ok"
             THEN /\ last' = [ Failed EXCEPT !.ai = ai, !.ai_calls = calls,
                                              !.qa_pairs = qa_pairs ]
                  /\ sessions' = [ sessions EXCEPT ![s] = stamped ]
             ELSE /\ sessions' = [ sessions EXCEPT ![s] =
                                     SaveReport(stamped, report_data) ]
                  /\ last' = [ Response("generate_interview_report", s, 200) EXCEPT
                                 !.ai = ai, !.ai_calls = calls,
                                 !.qa_pairs = qa_pairs,
                                 !.report = [ report_data EXCEPT
                                    !.shape = "technical_report",
                                    !.questions_asked = Len(qa_pairs),
                                    !.question_feedback = << >> ] ]
  /\ UNCHANGED << users, resumes, messages, inflight >>

----------------------------------------------------------------------------
(* Lookups *)

\* GET /interview-session/{session_id}: the body holds session_id, difficulty,
\* start_time, status and the messages, and no report
GetSessionDetails(s) ==
  /\ last' = IF s \notin DOMAIN sessions
             THEN Response("get_session_details", s, 404)
             ELSE Response("get_session_details", s, 200)
  /\ UNCHANGED << users, resumes, sessions, messages, now, inflight >>

\* GET /hr-interview-session/{session_id}: the HTTPException(404) is raised
\* inside the try block and caught by `except Exception`
GetHRInterviewSession(s) ==
  /\ last' = IF s \notin DOMAIN sessions
             THEN Response("get_hr_interview_session", s, 500)
             ELSE Response("get_hr_interview_session", s, 200)
  /\ UNCHANGED << users, resumes, sessions, messages, now, inflight >>

\* GET /ats-report/{user_id}: the HTTPException(404) is raised inside the try
\* block and caught by `except Exception`
GetLatestATSReport(u) ==
  /\ last' = IF LatestResume(u) = 0
             THEN [ Response("get_latest_ats_report", 0, 500) EXCEPT !.user_id = u ]
             ELSE [ Response("get_latest_ats_report", 0, 200) EXCEPT
                      !.user_id = u,
                      !.ats_report = resumes[LatestResume(u)].ats_report ]
  /\ UNCHANGED << users, resumes, sessions, messages, now, inflight >>

----------------------------------------------------------------------------
(* The system *)

\* what reading an uploaded file gives: its stripped text, or the reader raises
ReadResults == {"cv_python", "unreadable"}

\* a gateway outcome with the data it carries: data of Answers when it answers
GatewayAnswers(Data, none) ==
  ({"ok"} \X Data) \cup ((GatewayOutcomes \ {"ok"}) \X {none})

Next ==
  \/ \E u \in UserIds, file_extension \in {".pdf", ".txt"}, content \in ReadResults :
        UploadResume(u, file_extension, content, "", "none")
  \/ \E u \in UserIds : CreateInterviewSession(u)
  \/ \E u \in UserIds, r \in ResumeIds : CreateHRInterview(u, r)
  \/ \E s \in SessionIds, r \in ResumeIds, pq \in PreviousQuestions,
        g \in GatewayAnswers(AIQuestions, "") :
        GenerateQuestion(s, r, pq, g[1], g[2])
  \/ \E s \in SessionIds, r \in ResumeIds, pq \in PreviousQuestions,
        g \in GatewayAnswers(AIHRBatches, << >>) :
        GenerateHRQuestion(s, r, pq, g[1], g[2])
  \/ \E s \in SessionIds, answer \in Answers, commit \in BOOLEAN :
        SubmitAnswer(s, answer, commit)
  \/ \E s \in SessionIds, answer \in Answers, commit \in BOOLEAN :
        SubmitHRAnswer(s, answer, commit)
  \/ \E s \in SessionIds, g \in GatewayAnswers(AIReportData, NullReport) :
        CompleteHRInterview(s, g[1], g[2])
  \/ \E s \in SessionIds, g \in GatewayAnswers(AIReportData, NullReport) :
        GenerateInterviewReport(s, g[1], g[2])

Spec == Init /\ [][Next]_vars

----------------------------------------------------------------------------
(* Report synthesis over every log *)

\* the logs of at most MaxLog messages: every order of ai and user messages,
\* the i-th message holds the text "Qi" or "Ai"
RECURSIVE RoleLists(_)
RoleLists(n) ==
  IF n = 0 THEN { << >> }
  ELSE LET shorter == RoleLists(n - 1)
       IN shorter \cup { Append(l, role) : l \in { x \in shorter : Len(x) = n - 1 },
                                           role \in {"ai", "user"} }

LogOf(roles) ==
  [ i \in DOMAIN roles |->
      Message(roles[i],
              (IF roles[i] = "ai" THEN "Q" ELSE "A") \o ToString(i), i) ]

\* one user, one resume, one active session whose log is any of the logs
InitReport ==
  /\ users = << UserRow("u1") >>
  /\ resumes = << [ user_id |-> "u1", raw_text |-> "cv_python", job_role |-> "",
                    ats_report |-> SkippedATSReport ] >>
  /\ sessions = << NewSession("u1") >>
  /\ \E roles \in RoleLists(MaxLog) : messages = << LogOf(roles) >>
  /\ now = 0
  /\ last = NoResponse
  /\ inflight = {}

NextReport ==
  \/ \E g \in GatewayAnswers(AIReportData, NullReport) :
        CompleteHRInterview(1, g[1], g[2])
  \/ \E g \in GatewayAnswers(AIReportData, NullReport) :
        GenerateInterviewReport(1, g[1], g[2])

SpecReport == InitReport /\ [][NextReport]_vars

----------------------------------------------------------------------------
(* Question selection over every previous_questions list *)

RECURSIVE SeqsOfLen(_, _)
SeqsOfLen(A, n) ==
  IF n = 0 THEN { << >> }
  ELSE { Append(l, a) : l \in SeqsOfLen(A, n - 1), a \in A }

\* texts a client can send to generate_question: the templates, a lower-case
\* copy and a fragment of one, the empty text and a text of no template
TechnicalTexts ==
  { "T1py", "T1gen", "T2", "T3", "T4", "T5", "t2", "version control", "", "other" }

\* the texts of the templates of the two pools
PoolTexts == { "T1py", "T1gen", "T2", "T3", "T4", "T5" }

\* every list of at most 3 texts, every list of 3 texts behind up to
\* MaxPrev - 3 older questions, and every list of 4 to MaxPool templates
TechnicalPreviousQuestions ==
  UNION { SeqsOfLen(TechnicalTexts, n) : n \in 0..2 }
  \cup { [ i \in 1..k |-> "other" ] \o recent :
           k \in 0..(MaxPrev - 3), recent \in SeqsOfLen(TechnicalTexts, 3) }
  \cup UNION { SeqsOfLen(PoolTexts, n) : n \in 4..MaxPool }

\* the questions of a set of fallback HR questions in the order of the set,
\* followed by common questions, at most MaxPrev in all
HRPreviousQuestions ==
  { pq \in { SelectSeq(FallbackHRQuestions, LAMBDA q : q \in asked)
               \o [ i \in 1..k |-> CommonHRQuestions[((i - 1) % 5) + 1] ] :
             asked \in SUBSET SeqToSet(FallbackHRQuestions), k \in 0..MaxPrev } :
    Len(pq) <= MaxPrev }

\* one user, one resume, an interview in progress: an active session whose
\* log leaves room for one more message
InitQuestion ==
  /\ users = << UserRow("u1") >>
  /\ \E raw_text \in ResumeTexts :
       resumes = << [ user_id |-> "u1", raw_text |-> raw_text, job_role |-> "",
                      ats_report |-> SkippedATSReport ] >>
  /\ sessions = << NewSession("u1") >>
  /\ messages = << LogOf([ i \in 1..(MaxMsgs - 1) |->
                             IF i % 2 = 1 THEN "ai" ELSE "user" ]) >>
  /\ now = 0
  /\ last = NoResponse
  /\ inflight = {}

\* the gateway fails in every request; the session and the resume exist, so
\* a request is served while the log has room
NextQuestion ==
  \/ /\ TotalMessages < MaxMsgs
     /\ \E pq \in TechnicalPreviousQuestions, ai \in GatewayOutcomes \ {"ok"} :
          GenerateQuestion(1, 1, pq, ai, "")
  \/ /\ TotalMessages < MaxMsgs
     /\ \E pq \in HRPreviousQuestions, ai \in GatewayOutcomes \ {"ok"} :
          GenerateHRQuestion(1, 1, pq, ai, << >>)

SpecQuestion == InitQuestion /\ [][NextQuestion]_vars

----------------------------------------------------------------------------
(* Sessions served by the fallback whose client sends, with every request, *)
(* all the questions it was asked so far                                   *)

\* the questions of the first n requests of such a technical session
RECURSIVE TechnicalHistory(_, _)
TechnicalHistory(raw_text, n) ==
  IF n = 0 THEN << >>
  ELSE LET asked == TechnicalHistory(raw_text, n - 1)
       IN Append(asked, FallbackQuestion(raw_text, asked))

\* the questions of the first n requests of such an HR session
RECURSIVE HRHistory(_)
HRHistory(n) ==
  IF n = 0 THEN << >>
  ELSE LET asked == HRHistory(n - 1)
       IN Append(asked, NextHRQuestion(FallbackHRQuestions, asked))

\* request number n + 1 of a session, for every n up to MaxAsked
NextInterview ==
  \/ /\ TotalMessages < MaxMsgs
     /\ \E n \in 0..MaxAsked, ai \in GatewayOutcomes \ {"ok"} :
          GenerateQuestion(1, 1, TechnicalHistory(resumes[1].raw_text, n), ai, "")
  \/ /\ TotalMessages < MaxMsgs
     /\ \E n \in 0..MaxAsked, ai \in GatewayOutcomes \ {"ok"} :
          GenerateHRQuestion(1, 1, HRHistory(n), ai, << >>)

SpecInterview == InitQuestion /\ [][NextInterview]_vars

----------------------------------------------------------------------------
(* Concurrent question and answer requests on one session.  A request is   *)
(* two steps: up to db.add, where the row is built with the clock reading *)
(* of that moment, and db.commit with the response.  The requests name the *)
(* session and its resume and their commits succeed.                       *)

\* a request between db.add and db.commit, with the row it has added
Request(op, s, row) == [ op |-> op, sid |-> s, row |-> row ]

InsertRowOverLater(log, row) ==
  SelectSeq(log, LAMBDA m : m.timestamp < row.timestamp) \o << row >>

\* db.commit() of a request that added one row: the rows of the session as a
\* read in order of timestamp gives them after the insert
InsertRow(log, row) ==
  SelectSeq(log, LAMBDA m : m.timestamp < row.timestamp) \o << row >>
    \o SelectSeq(log, LAMBDA m : m.timestamp > row.timestamp)

\* rows stored and rows about to be stored
RowBudget == TotalMessages + Cardinality(inflight) < MaxMsgs

\* a handler up to db.add(InterviewMessage(..., timestamp=datetime.now()))
AddMessage(op, s, role, content) ==
  /\ s \in DOMAIN sessions
  /\ RowBudget
  /\ now' = now + 1
  /\ inflight' = inflight \cup { Request(op, s, Message(role, content, now + 1)) }
  /\ UNCHANGED << users, resumes, sessions, messages, last >>

\* generate_question up to db.add(ai_message)
BeginGenerateQuestion(s, r, previous_questions, ai, gq) ==
  /\ r \in DOMAIN resumes
  /\ AddMessage("generate_question", s, "ai",
                IF ai = "ok" THEN gq
                ELSE FallbackQuestion(resumes[r].raw_text, previous_questions))

\* generate_next_hr_question up to db.add(ai_message)
BeginGenerateHRQuestion(s, r, previous_questions, ai, batch) ==
  /\ r \in DOMAIN resumes
  /\ AddMessage("generate_hr_question", s, "ai",
                NextHRQuestion(HRQuestionsBasedOnResume(ai, batch),
                               previous_questions))

\* submit_answer up to db.add(user_message)
BeginSubmitAnswer(s, answer) == AddMessage("submit_answer", s, "user", answer)

\* evaluate_hr_answer up to db.add(user_message)
BeginSubmitHRAnswer(s, answer) ==
  AddMessage("submit_hr_answer", s, "user", answer)

\* db.commit(), db.refresh() and the response of any of the four handlers
CommitMessage(request) ==
  /\ inflight' = inflight \ { request }
  /\ messages' = [ messages EXCEPT ![request.sid] = InsertRow(@, request.row) ]
  /\ last' = [ Response(request.op, request.sid, 200) EXCEPT
                 !.message_id = request.row.timestamp,
                 !.question = IF request.row.role = "ai"
                              THEN request.row.content ELSE "" ]
  /\ UNCHANGED << users, resumes, sessions, now >>

\* one user, one resume, one active session, a log that leaves room for two
\* more messages, the clock past the timestamps of the log
InitConcurrent ==
  /\ users = << UserRow("u1") >>
  /\ resumes = << [ user_id |-> "u1", raw_text |-> "cv_python", job_role |-> "",
                    ats_report |-> SkippedATSReport ] >>
  /\ sessions = << NewSession("u1") >>
  /\ \E n \in 0..(MaxMsgs - 2) :
       /\ messages = << LogOf([ i \in 1..n |->
                                  IF i % 2 = 1 THEN "ai" ELSE "user" ]) >>
       /\ now = n
  /\ last = NoResponse
  /\ inflight = {}

NextConcurrent ==
  \/ \E pq \in PreviousQuestions, g \in GatewayAnswers(AIQuestions, "") :
        BeginGenerateQuestion(1, 1, pq, g[1], g[2])
  \/ \E pq \in PreviousQuestions, g \in GatewayAnswers(AIHRBatches, << >>) :
        BeginGenerateHRQuestion(1, 1, pq, g[1], g[2])
  \/ \E answer \in Answers : BeginSubmitAnswer(1, answer)
  \/ \E answer \in Answers : BeginSubmitHRAnswer(1, answer)
  \/ \E request \in inflight : CommitMessage(request)

SpecConcurrent == InitConcurrent /\ [][NextConcurrent]_vars

----------------------------------------------------------------------------
(* Uploads and session creation by two users *)

Clients == {"u1", "u2"}

FileExtensions == {".pdf", ".docx", ".PDF", ".txt"}

\* the stripped text of a file: a resume, nothing, or the reader raises
FileContents == {"cv_python", "", "unreadable"}

\* jobDescription of the upload form: absent, empty or a description
JobRoles == {"None", "", "jd"}

NextStore ==
  \/ \E u \in Clients, file_extension \in FileExtensions, content \in FileContents,
        job_role \in JobRoles, ai \in GatewayOutcomes :
        UploadResume(u, file_extension, content, job_role, ai)
  \/ \E u \in Clients : CreateInterviewSession(u)
  \/ \E u \in Clients, r \in ResumeIds : CreateHRInterview(u, r)
  \/ \E u \in Clients : GetLatestATSReport(u)

SpecStore == Init /\ [][NextStore]_vars

----------------------------------------------------------------------------
(* Reports and lookups of a session with any log *)

\* session ids of requests: the session of InitReport and an absent one
LookupSessionIds == 1..(MaxSessions + 1)

NextLookup ==
  \/ \E s \in LookupSessionIds, g \in GatewayAnswers(AIReportData, NullReport) :
        CompleteHRInterview(s, g[1], g[2])
  \/ \E s \in LookupSessionIds, g \in GatewayAnswers(AIReportData, NullReport) :
        GenerateInterviewReport(s, g[1], g[2])
  \/ \E s \in LookupSessionIds : GetSessionDetails(s)
  \/ \E s \in LookupSessionIds : GetHRInterviewSession(s)
  \/ \E u \in Clients : GetLatestATSReport(u)

SpecLookup == InitReport /\ [][NextLookup]_vars

----------------------------------------------------------------------------
(* Every handler that calls the gateway, with every outcome of the call *)

\* the empty store, or a session with any log
InitGateway == Init \/ InitReport

NextGateway ==
  \/ \E u \in UserIds, job_role \in JobRoles, ai \in GatewayOutcomes :
        UploadResume(u, ".pdf", "cv_python", job_role, ai)
  \/ \E pq \in PreviousQuestions, g \in GatewayAnswers(AIQuestions, "") :
        GenerateQuestion(1, 1, pq, g[1], g[2])
  \/ \E pq \in PreviousQuestions, g \in GatewayAnswers(AIHRBatches, << >>) :
        GenerateHRQuestion(1, 1, pq, g[1], g[2])
  \/ \E g \in GatewayAnswers(AIReportData, NullReport) :
        CompleteHRInterview(1, g[1], g[2])
  \/ \E g \in GatewayAnswers(AIReportData, NullReport) :
        GenerateInterviewReport(1, g[1], g[2])

SpecGateway == InitGateway /\ [][NextGateway]_vars

----------------------------------------------------------------------------
(* Properties of the session state machine, checked under Spec *)

HasAnswer(s) == \E i \in DOMAIN messages[s] : messages[s][i].role = "user"

ReportSet(session) ==
  /\ session.end_time # Null
  /\ session.final_score # Null
  /\ session.final_report # NullReport

ReportUnset(session) ==
  /\ session.end_time = Null
  /\ session.final_score = Null
  /\ session.final_report = NullReport

GatewayFailures == GatewayOutcomes \ {"ok"}

\* C1: in every state and for every session, status = completed if and only
\* if end_time, final_score and final_report are all set, and the three
\* fields are never set in part.
C1_CompletedIffReportSet ==
  \A s \in DOMAIN sessions :
    /\ sessions[s].status = "completed" <=> ReportSet(sessions[s])
    /\ ReportSet(sessions[s]) \/ ReportUnset(sessions[s])

\* C2: complete on the HR track for a session without any user message
\* fails and leaves the session row and its message log unchanged.
C2_HRCompleteWithoutAnswerFails ==
  [][ \A s \in DOMAIN sessions :
        (last'.op = "complete_hr_interview" /\ last'.sid = s /\ ~ HasAnswer(s))
        => /\ last'.code = 500
           /\ sessions'[s] = sessions[s]
           /\ messages'[s] = messages[s] ]_vars

\* a failed HR completion of a session that holds questions and no answer
C2_Witness ==
  /\ last.op = "complete_hr_interview"
  /\ last.code = 500
  /\ last.sid \in DOMAIN sessions
  /\ messages[last.sid] # << >>
  /\ ~ HasAnswer(last.sid)
  /\ sessions[last.sid].status = "active"
  /\ sessions[last.sid].end_time = Null

\* C3: complete on the technical track for a session without any user
\* message fails and leaves status, end_time, final_score and final_report
\* unchanged.
C3_TechnicalCompleteWithoutAnswerFails ==
  [][ \A s \in DOMAIN sessions :
        (last'.op = "generate_interview_report" /\ last'.sid = s /\ ~ HasAnswer(s))
        => /\ last'.code = 500
           /\ sessions'[s] = sessions[s] ]_vars

IsComplete(op) == op \in {"complete_hr_interview", "generate_interview_report"}

\* C4: complete on a completed session keeps end_time, final_score and
\* final_report of the first completion and appends no message.
C4_SecondCompleteKeepsReport ==
  [][ \A s \in DOMAIN sessions :
        (sessions[s].status = "completed" /\ IsComplete(last'.op) /\ last'.sid = s)
        => /\ sessions'[s].end_time = sessions[s].end_time
           /\ sessions'[s].final_score = sessions[s].final_score
           /\ sessions'[s].final_report = sessions[s].final_report
           /\ messages'[s] = messages[s] ]_vars

\* C5: a session's status is active or completed, a new session is active,
\* and a completed session stays completed.
C5_StatusActiveThenCompleted ==
  /\ [](\A s \in DOMAIN sessions : sessions[s].status \in {"active", "completed"})
  /\ [][ /\ \A s \in DOMAIN sessions' \ DOMAIN sessions :
               sessions'[s].status = "active"
         /\ \A s \in DOMAIN sessions :
               sessions[s].status = "completed" => sessions'[s].status = "completed"
       ]_vars

\* a completed session on which a later request was served
C5_Witness ==
  \E s \in DOMAIN sessions :
    /\ sessions[s].status = "completed"
    /\ last.sid = s
    /\ last.op \in {"submit_answer", "generate_question", "generate_hr_question",
                    "submit_hr_answer"}
    /\ last.code = 200
    /\ last.message_id = Len(messages[s])

\* C6: once a session is completed its message log never changes.
C6_CompletedLogFrozen ==
  [][ \A s \in DOMAIN sessions :
        sessions[s].status = "completed" => messages'[s] = messages[s] ]_vars

\* C7: when the gateway is unconfigured, raises or answers unparsable text
\* during report generation, complete answers with a fallback report and the
\* session is completed, on the technical and on the HR track.
C7_ReportFallsBack ==
  (/\ IsComplete(last.op)
   /\ last.ai \in GatewayFailures
   /\ last.sid \in DOMAIN sessions)
  => /\ last.code = 200
     /\ last.report.src = "fallback"
     /\ sessions[last.sid].status = "completed"

----------------------------------------------------------------------------
(* Properties of the fallback HR report, checked under SpecReport *)

HRFallbackReported ==
  /\ last.op = "complete_hr_interview"
  /\ last.code = 200
  /\ last.ai \in GatewayFailures
  /\ last.report.src = "fallback"

Prefixes(log) == { SubSeq(log, 1, k) : k \in 0..Len(log) }

\* C8: the overall_score of a fallback HR report lies in [60, 85], is not
\* below the score of any shorter log of the session that holds an answer,
\* and the five category scores are overall_score -5, 0, -10, +5, 0.
C8_FallbackScoreBounded ==
  HRFallbackReported =>
    LET score == last.report.overall_score
    IN /\ 60 <= score /\ score <= 85
       /\ \A earlier \in Prefixes(messages[last.sid]) :
            AnswersGiven(earlier) # << >> =>
              FallbackHRReport(earlier).overall_score <= score
       /\ last.report.category_scores =
            << score - 5, score, score - 10, score + 5, score >>
       /\ sessions[last.sid].final_score = score

\* a fallback report over six answers: 60 + 5 * 6 is above the cap
C8_Witness ==
  /\ HRFallbackReported
  /\ Len(AnswersGiven(messages[last.sid])) = 6
  /\ last.report.overall_score = 85

\* C9: the overall_score of a fallback HR report is min(85, 60 + 5 * p) for
\* the p question/answer pairs of the report, its questions_asked (stated
\* here for the reports that hold at least one pair).
C9_FallbackScoreCountsPairs ==
  (HRFallbackReported /\ last.report.questions_asked >= 1) =>
    last.report.overall_score = Min(85, 60 + 5 * last.report.questions_asked)

----------------------------------------------------------------------------
(* Properties of question selection, checked under SpecQuestion *)

LoggedQuestion(s, question) ==
  /\ messages[s] # << >>
  /\ messages[s][Len(messages[s])].role = "ai"
  /\ messages[s][Len(messages[s])].content = question
  /\ last.message_id = Len(messages[s])

\* C10: with the gateway failing, next_question on an existing session and
\* resume succeeds on both tracks and returns a question of the template
\* pool, for every previous_questions list.
C10_FallbackQuestionFromPool ==
  (last.ai \in GatewayFailures /\ last.sid \in DOMAIN sessions) =>
    /\ last.op = "generate_question" =>
         /\ last.code = 200
         /\ \E r \in DOMAIN resumes :
              last.question \in SeqToSet(FallbackQuestions(resumes[r].raw_text))
         /\ LoggedQuestion(last.sid, last.question)
    /\ last.op = "generate_hr_question" =>
         /\ last.code = 200
         /\ last.question \in SeqToSet(FallbackHRQuestions \o CommonHRQuestions)
         /\ LoggedQuestion(last.sid, last.question)

\* a question of the common set, asked after all eight fallback HR questions
C10_Witness ==
  /\ last.op = "generate_hr_question"
  /\ last.ai \in GatewayFailures
  /\ last.nprev > Len(FallbackHRQuestions)
  /\ last.code = 200
  /\ last.question \in SeqToSet(CommonHRQuestions)

----------------------------------------------------------------------------
(* Properties of lookups and reports, checked under SpecLookup and         *)
(* SpecReport                                                              *)

IsLookup(op) == op \in {"get_session_details", "get_hr_interview_session"}

\* C11: a successful lookup of a completed session returns the report the
\* session holds as final_report.
C11_LookupReturnsReport ==
  (/\ IsLookup(last.op)
   /\ last.code = 200
   /\ last.sid \in DOMAIN sessions
   /\ sessions[last.sid].status = "completed")
  => last.report = sessions[last.sid].final_report

\* C12: the report a successful complete returns is the report it stored as
\* the session's final_report, on the AI path and on the fallback path.
C12_ReturnedReportIsStored ==
  (IsComplete(last.op) /\ last.code = 200 /\ last.sid \in DOMAIN sessions)
  => last.report = sessions[last.sid].final_report

\* C13: in every HR report returned, an entry of question_by_question_feedback
\* with a score of 85 or more has the fixed phrase as areas_to_improve.
C13_HighScoreNeedsNoImprovement ==
  (last.op = "complete_hr_interview" /\ last.code = 200)
  => \A n \in DOMAIN last.report.question_feedback :
       last.report.question_feedback[n].score >= 85
       => last.report.question_feedback[n].areas_to_improve = NoImprovementNeeded

\* C18: HR report synthesis over a log that yields no question/answer pair
\* fails and leaves the session as it was.
C18_NoPairsNoReport ==
  [][ \A s \in DOMAIN sessions :
        (/\ last'.op = "complete_hr_interview"
         /\ last'.sid = s
         /\ HRQaPairs(messages[s]) = << >>)
        => /\ last'.code # 200
           /\ sessions'[s] = sessions[s] ]_vars

\* C19: a session lookup or a report generation for an absent session, and
\* the ATS report of a user without a resume, answer 404.
C19_AbsentIsNotFound ==
  (\/ /\ IsLookup(last.op) \/ last.op = "generate_interview_report"
      /\ last.sid \notin DOMAIN sessions
   \/ /\ last.op = "get_latest_ats_report"
      /\ \A r \in DOMAIN resumes : resumes[r].user_id # last.user_id)
  => last.code = 404

----------------------------------------------------------------------------
(* Properties of uploads and session creation, checked under SpecStore *)

IsCreate(op) == op \in {"create_interview_session", "create_hr_interview"}

\* C14: a resume uploaded without a job description is stored with the
\* report of a skipped ATS scan, and the gateway is not called in the request.
C14_NoJobDescriptionSkipsATS ==
  /\ \A r \in DOMAIN resumes :
       resumes[r].job_role \in {"None", ""} => resumes[r].ats_report = "ats_skipped"
  /\ (/\ last.op = "upload_resume"
      /\ last.code = 200
      /\ resumes[Len(resumes)].job_role \in {"None", ""})
     => last.ai = "none"

\* an upload with an absent job description, stored with the skipped report
C14_Witness ==
  /\ last.op = "upload_resume"
  /\ last.code = 200
  /\ last.ai = "none"
  /\ resumes # << >>
  /\ resumes[Len(resumes)].job_role = "None"
  /\ resumes[Len(resumes)].ats_report = "ats_skipped"

\* C15: every session belongs to a user who owns a resume, and a create that
\* fails adds no session.
C15_SessionOwnerHasResume ==
  /\ [](\A s \in DOMAIN sessions :
         \E r \in DOMAIN resumes : resumes[r].user_id = sessions[s].user_id)
  /\ [][ (IsCreate(last'.op) /\ last'.code # 200) => sessions' = sessions ]_vars

\* C16: a create that fails leaves users, resumes, sessions and messages
\* unchanged.
C16_FailedCreateChangesNothing ==
  [][ (IsCreate(last'.op) /\ last'.code # 200)
      => /\ users' = users
         /\ resumes' = resumes
         /\ sessions' = sessions
         /\ messages' = messages ]_vars

\* C17: every session's user has a row in users, no two rows of users hold
\* the same user_id, and a row once inserted stays as it is.
C17_UserRowOnce ==
  /\ [](\A s \in DOMAIN sessions :
         \E i \in DOMAIN users : users[i].user_id = sessions[s].user_id)
  /\ [](\A i, j \in DOMAIN users :
         users[i].user_id = users[j].user_id => i = j)
  /\ [][ /\ Len(users') >= Len(users)
         /\ \A i \in DOMAIN users : users'[i] = users[i] ]_vars

\* a successful create for the second of two users, each with one row
C17_Witness ==
  /\ IsCreate(last.op)
  /\ last.code = 200
  /\ Len(users) = 2
  /\ sessions[last.sid].user_id = users[2].user_id

\* C20: an upload with an unsupported extension, or whose extraction gives
\* the "Error:" text or no text, is rejected and stores no resume; the
\* extractor gives the "Error:" text for an unsupported extension and for a
\* file the reader cannot read.
C20_BadUploadRejected ==
  /\ [](\A file_extension \in FileExtensions, content \in FileContents :
         (file_extension \notin {".pdf", ".docx", ".PDF"} \/ content = "unreadable")
         => ExtractTextFromFile(file_extension, content) = "Error:")
  /\ [][ (/\ last'.op = "upload_resume"
          /\ \/ last'.file_extension \notin {".pdf", ".docx", ".PDF"}
             \/ last'.extracted \in {"Error:", ""})
         => /\ last'.code # 200
            /\ resumes' = resumes ]_vars

\* a rejected upload of a .docx file without text
C20_Witness ==
  /\ last.op = "upload_resume"
  /\ last.file_extension = ".docx"
  /\ last.extracted = ""
  /\ last.code = 500
  /\ resumes = << >>

----------------------------------------------------------------------------
(* Properties of the question and answer handlers, checked under Spec      *)

IsNextQuestion(op) == op \in {"generate_question", "generate_hr_question"}

IsSubmitAnswer(op) == op \in {"submit_answer", "submit_hr_answer"}

\* C21: a question returned with status success by next_question (either
\* track) is stored as an `ai` message of the session and the returned
\* message_id is the id of that message; in particular a request naming an
\* absent session or resume is not answered with a question.
C21_ReturnedQuestionIsLogged ==
  (IsNextQuestion(last.op) /\ last.code = 200) =>
    /\ last.sid \in DOMAIN sessions
    /\ last.message_id \in DOMAIN messages[last.sid]
    /\ messages[last.sid][last.message_id].role = "ai"
    /\ messages[last.sid][last.message_id].content = last.question

\* C22: a submit_answer (either track) answered with success has added
\* exactly one `user` message holding the answer to the log of its session;
\* a request whose message was not stored is not answered with success.
C22_SuccessfulAnswerIsStored ==
  [][ (IsSubmitAnswer(last'.op) /\ last'.code = 200) =>
        /\ last'.sid \in DOMAIN messages
        /\ \E answer \in Answers :
             messages' = [ messages EXCEPT ![last'.sid] =
                             Append(@, Message("user", answer, Len(@) + 1)) ]
    ]_vars

----------------------------------------------------------------------------
(* Properties of the pairs of a report, checked under SpecReport           *)

\* the user messages of a log that are later than message m
LaterAnswers(log, m) ==
  { k \in DOMAIN log : log[k].role = "user" /\ log[k].timestamp > m.timestamp }

\* the ai messages of a log that have a later user message, in log order
AnsweredQuestions(log) ==
  SelectSeq(log, LAMBDA m : m.role = "ai" /\ LaterAnswers(log, m) # {})

\* the earliest of the user messages later than m
FirstLaterAnswer(log, m) ==
  log[CHOOSE k \in LaterAnswers(log, m) :
        \A j \in LaterAnswers(log, m) : log[k].timestamp <= log[j].timestamp]

\* C23: the pairs of an HR report are, in log order, each `ai` message that
\* has a `user` message with a strictly later timestamp together with the
\* first such `user` message; an `ai` message with no later `user` message
\* gives no pair, and the report counts the pairs.
C23_HRPairsFirstLaterAnswer ==
  (last.op = "complete_hr_interview" /\ last.code = 200) =>
    LET log == messages[last.sid]
        answered == AnsweredQuestions(log)
    IN /\ Len(last.qa_pairs) = Len(answered)
       /\ last.report.questions_asked = Len(answered)
       /\ \A n \in DOMAIN answered :
            /\ last.qa_pairs[n].question = answered[n].content
            /\ last.qa_pairs[n].answer = FirstLaterAnswer(log, answered[n]).content

\* an HR report over a log that ends with an unanswered question and holds a
\* question followed by two answers
C23_Witness ==
  /\ last.op = "complete_hr_interview"
  /\ last.code = 200
  /\ LET log == messages[last.sid]
     IN /\ Len(log) >= 4
        /\ log[Len(log)].role = "ai"
        /\ \E i \in DOMAIN log :
             log[i].role = "ai" /\ Cardinality(LaterAnswers(log, log[i])) >= 2
        /\ Len(last.qa_pairs) >= 1
        /\ Len(last.qa_pairs) < Len(QuestionsAsked(log))

\* a log in which ai questions and user answers alternate, a question first
Alternating(log) ==
  \A i \in DOMAIN log : log[i].role = (IF i % 2 = 1 THEN "ai" ELSE "user")

\* C24: in a technical report over a log in which questions and answers
\* alternate, the n-th pair holds the content of the n-th `ai` message as
\* its question and the content of the `user` message after it as its answer.
C24_TechnicalPairsQuestionThenAnswer ==
  (last.op = "generate_interview_report" /\ last.code = 200
     /\ Alternating(messages[last.sid])) =>
    LET log == messages[last.sid]
    IN /\ Len(last.qa_pairs) = Len(log) \div 2
       /\ \A n \in DOMAIN last.qa_pairs :
            /\ last.qa_pairs[n].question = log[2 * n - 1].content
            /\ last.qa_pairs[n].answer = log[2 * n].content

\* C28: in an HR report no `user` message is the answer of two pairs,
\* whatever the order of the logged messages.
C28_AnswerPairedOnce ==
  (last.op = "complete_hr_interview" /\ last.code = 200) =>
    \A m, n \in DOMAIN last.qa_pairs :
      m # n => last.qa_pairs[m].answer_ts # last.qa_pairs[n].answer_ts

----------------------------------------------------------------------------
(* Properties of the gateway calls, checked under SpecGateway              *)

\* the handlers that answer from a fallback when their gateway call fails
HasFallback(op) ==
  op \in {"upload_resume", "generate_question", "generate_hr_question",
          "complete_hr_interview"}

----------------------------------------------------------------------------
(* Properties of the fallback selection, checked under SpecQuestion        *)

\* previous_questions of the last request holds texts of templates of the
\* pool of the resume only
OnlyPoolTemplates ==
  \A i \in DOMAIN last.previous_questions :
    last.previous_questions[i] \in SeqToSet(FallbackQuestions(resumes[1].raw_text))

\* C27: on the technical fallback path, when previous_questions holds texts
\* of pool templates only, the question returned is none of the last 3
\* entries of previous_questions.
C27_FallbackSkipsLastThree ==
  (last.op = "generate_question" /\ last.ai \in GatewayFailures
     /\ OnlyPoolTemplates) =>
    /\ last.code = 200
    /\ \A i \in DOMAIN last.previous_questions :
         i > Len(last.previous_questions) - 3 =>
           last.question # last.previous_questions[i]

\* the fourth question of a session: three templates are skipped and the one
\* asked first is not
C27_Witness ==
  /\ last.op = "generate_question"
  /\ last.ai \in GatewayFailures
  /\ OnlyPoolTemplates
  /\ Len(last.previous_questions) = 4
  /\ Cardinality(SeqToSet(last.previous_questions)) = 4
  /\ last.question = last.previous_questions[1]

----------------------------------------------------------------------------
(* Properties of a session served by the fallback, checked under           *)
(* SpecInterview, where previous_questions is the list of the questions    *)
(* the session was asked so far                                            *)

\* C29: in a technical session served by the fallback pool only, each of
\* the first 5 questions differs from all the questions asked before it.
C29_FirstFiveDistinct ==
  (last.op = "generate_question" /\ last.ai \in GatewayFailures
     /\ Len(last.previous_questions) < 5) =>
    /\ last.code = 200
    /\ last.question \notin SeqToSet(last.previous_questions)

\* C30: in an HR session on the 8 fallback questions, a question returned
\* while fewer than 8 questions have been asked is a question of the set
\* that is not in previous_questions.
C30_HRNoRepeatBeforeExhaustion ==
  (last.op = "generate_hr_question" /\ last.ai \in GatewayFailures
     /\ Len(last.previous_questions) < Len(FallbackHRQuestions)) =>
    /\ last.code = 200
    /\ last.question \in SeqToSet(FallbackHRQuestions)
    /\ last.question \notin SeqToSet(last.previous_questions)

\* the eighth question of an HR session: seven distinct questions were asked
C30_Witness ==
  /\ last.op = "generate_hr_question"
  /\ last.ai \in GatewayFailures
  /\ last.code = 200
  /\ Len(last.previous_questions) = 7
  /\ Cardinality(SeqToSet(last.previous_questions)) = 7
  /\ SeqToSet(last.previous_questions) \cup {last.question}
       = SeqToSet(FallbackHRQuestions)

----------------------------------------------------------------------------
(* Properties of concurrent requests, checked under SpecConcurrent         *)

====
